---------------------------- MODULE Spec2Model ----------------------------
(***************************************************************************)
(* Model of the MLB schedule scraper (mlb_reg_2025):                      *)
(*   - get_all_games_from_schedule: the forward scan over h3 / p elements  *)
(*   - save_to_csv / save_to_json, update_csv_from_html, main             *)
(*   - extract_initial_win_prob (espn_scrape.py)                          *)
(*   - extract_odds_from_html (odds_scrape.py)                             *)
(*   - get_games_for_date: the date matching (day_sample.py)               *)
(* Text is a sequence of one-character strings, so that substring tests,   *)
(* regular-expression scans and int() are computed and not assumed.        *)
(***************************************************************************)
EXTENDS Integers, Sequences, FiniteSets

VARIABLES
    html,          \* the source document file: [exists, mtime, doc]
    csv,           \* the tabular sink file:    [exists, mtime, content]
    json,          \* the structured sink file: [exists, mtime, content]
    now,           \* the wall clock, in the unit os.path.getmtime reports
    last,          \* what the last completed run did (history of one run)
    sync,          \* history: the last successful update and the source since
    sdoc,          \* extractor scan: soup.find_all(['h3','p']) of the document
    pos,           \* extractor scan: index of the next element of the loop
    current_date,  \* extractor scan: local current_date
    games,         \* extractor scan: local games
    today_str,     \* extractor scan: local today_str
    prev,          \* extractor scan: results of the runs completed so far
    content,       \* win probability: the text of the scanned file
    wp,            \* win probability: outcome of extract_initial_win_prob
    gameRows,      \* odds extractor: the gameRows list of the embedded JSON
    results,       \* odds extractor: outcome of extract_odds_from_html
    game_sections, \* day lookup: heading text of each section with games
    target_date,   \* day lookup: the target_date argument
    selected_days  \* day lookup: indexes of the sections the call selected

vars == <<html, csv, json, now, last, sync, sdoc, pos, current_date, games,
          today_str, prev, content, wp, gameRows, results,
          game_sections, target_date, selected_days>>

pipeVars == <<html, csv, json, last, sync>>
scanVars == <<sdoc, pos, current_date, games, today_str, prev>>
wpVars   == <<content, wp>>
oddsVars == <<gameRows, results>>
dayVars  == <<game_sections, target_date, selected_days>>

-----------------------------------------------------------------------------
(* Python's None and a present value *)
None == <<>>
Some(x) == <<x>>
IsNone(o) == o = <<>>
Val(o) == o[1]

-----------------------------------------------------------------------------
(* Text primitives *)

Digits == {"0", "1", "2", "3", "4", "5", "6", "7", "8", "9"}

Upper == {"A", "B", "C", "D", "E", "F", "G", "H", "I", "J", "K", "L", "M",
          "N", "O", "P", "Q", "R", "S", "T", "U", "V", "W", "X", "Y", "Z"}

Whitespace == {" ", "\n", "\t"}

DigitVal(c) ==
    CASE c = "0" -> 0 [] c = "1" -> 1 [] c = "2" -> 2 [] c = "3" -> 3
      [] c = "4" -> 4 [] c = "5" -> 5 [] c = "6" -> 6 [] c = "7" -> 7
      [] c = "8" -> 8 [] c = "9" -> 9

\* pat occurs in text at index i
MatchAt(text, pat, i) ==
    /\ i >= 1
    /\ i + Len(pat) - 1 <= Len(text)
    /\ \A k \in 1..Len(pat) : text[i + k - 1] = pat[k]

\* Python: pat in text
Contains(text, pat) == \E i \in 1..(Len(text) + 1) : MatchAt(text, pat, i)

\* Python: int(s) for a string of decimal digits
RECURSIVE ParseInt(_)
ParseInt(s) ==
    IF s = <<>> THEN 0
    ELSE 10 * ParseInt(SubSeq(s, 1, Len(s) - 1)) + DigitVal(s[Len(s)])

\* Python: s.strip()
RECURSIVE Strip(_)
Strip(s) ==
    IF s = <<>> THEN s
    ELSE IF s[1] \in Whitespace THEN Strip(Tail(s))
    ELSE IF s[Len(s)] \in Whitespace THEN Strip(SubSeq(s, 1, Len(s) - 1))
    ELSE s

\* number of digits at text[i], text[i+1], ... (the greedy \d+)
RECURSIVE DigitRun(_, _)
DigitRun(text, i) ==
    IF i <= Len(text) /\ text[i] \in Digits THEN 1 + DigitRun(text, i + 1) ELSE 0

\* re.findall(r'\((\d+)\)', text) scanning from index i: the groups of the
\* leftmost non-overlapping matches
RECURSIVE FindScoresFrom(_, _)
FindScoresFrom(text, i) ==
    IF i > Len(text) THEN <<>>
    ELSE LET n == DigitRun(text, i + 1)
         IN IF /\ text[i] = "("
               /\ n >= 1
               /\ i + n + 1 <= Len(text)
               /\ text[i + n + 1] = ")"
            THEN <<SubSeq(text, i + 1, i + n)>> \o FindScoresFrom(text, i + n + 2)
            ELSE FindScoresFrom(text, i + 1)

FindScores(text) == FindScoresFrom(text, 1)

TeamsPrefix == <<"/", "t", "e", "a", "m", "s", "/">>

\* re.compile(r'/teams/[A-Z]+/').search(href)
TeamHref(href) ==
    \E i \in 1..Len(href) :
        /\ MatchAt(href, TeamsPrefix, i)
        /\ \E j \in (i + 8)..Len(href) :
              /\ href[j] = "/"
              /\ \A k \in (i + 7)..(j - 1) : href[k] \in Upper

-----------------------------------------------------------------------------
(* Document tree: an element is [name, class, children]; a child is        *)
(* [name, href, tz, text] with name "a", "span" or "#text".                *)

RECURSIVE ConcatText(_)
ConcatText(children) ==
    IF children = <<>> THEN <<>>
    ELSE children[1].text \o ConcatText(Tail(children))

RECURSIVE ConcatStripped(_)
ConcatStripped(children) ==
    IF children = <<>> THEN <<>>
    ELSE Strip(children[1].text) \o ConcatStripped(Tail(children))

\* element.get_text()
GetText(el) == ConcatText(el.children)

\* element.get_text(strip=True)
GetTextStrip(el) == ConcatStripped(el.children)

IsTeamLink(c) == c.name = "a" /\ TeamHref(c.href)
IsTimeSpan(c) == c.name = "span" /\ c.tz = <<"E">>

\* element.find_all('a', href=re.compile(r'/teams/[A-Z]+/'))
FindTeamLinks(el) == SelectSeq(el.children, IsTeamLink)

\* element.find('span', attrs={'tz': 'E'})
FindTimeSpan(el) ==
    LET spans == SelectSeq(el.children, IsTimeSpan)
    IN  IF spans = <<>> THEN None ELSE Some(spans[1])

-----------------------------------------------------------------------------
(* The calendar behind datetime.now() *)

TicksPerDay == 2

WeekdayNames ==
    << <<"M","o","n","d","a","y">>, <<"T","u","e","s","d","a","y">>,
       <<"W","e","d","n","e","s","d","a","y">>, <<"T","h","u","r","s","d","a","y">>,
       <<"F","r","i","d","a","y">>, <<"S","a","t","u","r","d","a","y">>,
       <<"S","u","n","d","a","y">> >>

DigitChar(d) == <<"0", "1", "2", "3", "4", "5", "6", "7", "8", "9">>[d + 1]

\* decimal rendering of a natural number, without padding (%-d, %Y)
RECURSIVE DecStr(_)
DecStr(n) == IF n < 10 THEN <<DigitChar(n)>>
             ELSE DecStr(n \div 10) \o <<DigitChar(n % 10)>>

\* datetime.now(): the clock starts on Monday, August 4, 2025
DateTimeNow(t) ==
    LET d == t \div TicksPerDay
    IN  [weekday |-> WeekdayNames[(d % 7) + 1],
         month   |-> <<"A","u","g","u","s","t">>,
         day     |-> 4 + d,
         year    |-> 2025]

\* s.replace(" 0", " ")
RECURSIVE ReplaceSpaceZero(_)
ReplaceSpaceZero(s) ==
    IF s = <<>> THEN s
    ELSE IF MatchAt(s, <<" ", "0">>, 1)
         THEN <<" ">> \o ReplaceSpaceZero(SubSeq(s, 3, Len(s)))
         ELSE <<s[1]>> \o ReplaceSpaceZero(Tail(s))

\* a rendering that also carries the time of day
TodayStrWithTime(t) ==
    LET dt == DateTimeNow(t)
    IN  dt.weekday \o <<",", " ">> \o dt.month \o <<" ">> \o DecStr(dt.day)
            \o <<",", " ">> \o DecStr(dt.year) \o <<" ">> \o DecStr(t % TicksPerDay)

\* datetime.now().strftime("%A, %B %-d, %Y").replace(" 0", " ")
TodayStr(t) ==
    LET dt == DateTimeNow(t)
    IN  ReplaceSpaceZero(dt.weekday \o <<",", " ">> \o dt.month \o <<" ">>
                         \o DecStr(dt.day) \o <<",", " ">> \o DecStr(dt.year))

-----------------------------------------------------------------------------
(* get_all_games_from_schedule: one iteration of the loop per element *)

TodaysGames == <<"T","o","d","a","y","'","s"," ","G","a","m","e","s">>
Comma == <<",">>
Year2025 == <<"2","0","2","5">>
SpringMarker == <<"(","S","p","r","i","n","g",")">>

\* Python truthiness of an optional string: None and "" are falsy
Truthy(o) == ~IsNone(o) /\ Val(o) # <<>>

\* a variant that keeps the first date it adopted
HeadingDateFirstOnly(cd, today, el) ==
    LET date_text == GetTextStrip(el)
    IN  IF ~IsNone(cd) THEN cd
        ELSE IF date_text = TodaysGames THEN Some(today)
        ELSE IF date_text # <<>> /\ Contains(date_text, Comma)
                                 /\ Contains(date_text, Year2025)
             THEN Some(date_text)
             ELSE cd

\* a variant without the comma test
HeadingDateNoComma(cd, today, el) ==
    LET date_text == GetTextStrip(el)
    IN  IF date_text = TodaysGames THEN Some(today)
        ELSE IF date_text # <<>> /\ Contains(date_text, Year2025)
             THEN Some(date_text)
             ELSE cd

\* the h3 branch: the new current_date
HeadingDate(cd, today, el) ==
    LET date_text == GetTextStrip(el)
    IN  IF date_text = TodaysGames THEN Some(today)
        ELSE IF date_text # <<>> /\ Contains(date_text, Comma)
                                 /\ Contains(date_text, Year2025)
             THEN Some(date_text)
             ELSE cd

\* a variant that takes the final score from the last token
AssignScoresLast(scores) ==
    IF Len(scores) >= 2
    THEN [score1 |-> Some(ParseInt(scores[1])),
          score2 |-> Some(ParseInt(scores[Len(scores)]))]
    ELSE IF Len(scores) = 1
         THEN [score1 |-> Some(ParseInt(scores[1])), score2 |-> None]
         ELSE [score1 |-> None, score2 |-> None]

\* lines 64-69: scores -> (score1, score2)
AssignScores(scores) ==
    IF Len(scores) >= 2
    THEN [score1 |-> Some(ParseInt(scores[1])), score2 |-> Some(ParseInt(scores[2]))]
    ELSE IF Len(scores) = 1
         THEN [score1 |-> Some(ParseInt(scores[1])), score2 |-> None]
         ELSE [score1 |-> None, score2 |-> None]

\* game_data as it is when appended (at least two team links)
GameData(cd, el) ==
    LET time_span  == FindTimeSpan(el)
        team_links == FindTeamLinks(el)
        sc         == AssignScores(FindScores(GetText(el)))
    IN  [date         |-> cd,
         team1        |-> Some(Strip(team_links[1].text)),
         team2        |-> Some(Strip(team_links[2].text)),
         score1       |-> sc.score1,
         score2       |-> sc.score2,
         time         |-> IF IsNone(time_span) THEN None
                          ELSE Some(Strip(Val(time_span).text)),
         game_type    |-> None,
         raw_html     |-> el,
         text_content |-> GetText(el)]

IsHeading(el) == el.name = "h3"
IsGamePara(el) == el.name = "p" /\ \E i \in 1..Len(el.class) : el.class[i] = "game"

\* a variant without the exhibition filter
EmitsExhibition(cd, el) ==
    /\ Truthy(cd)
    /\ Len(FindTeamLinks(el)) >= 2

\* the p.game branch appends a record
Emits(cd, el) ==
    /\ Truthy(cd)
    /\ ~Contains(GetText(el), SpringMarker)
    /\ Len(FindTeamLinks(el)) >= 2

\* one iteration of `for element in soup.find_all(['h3', 'p'])`
ScanStep(st, today, el) ==
    IF IsHeading(el)
    THEN [current_date |-> HeadingDate(st.current_date, today, el), games |-> st.games]
    ELSE IF IsGamePara(el) /\ Emits(st.current_date, el)
         THEN [current_date |-> st.current_date,
               games |-> Append(st.games, GameData(st.current_date, el))]
         ELSE st

RECURSIVE ScanFrom(_, _, _, _)
ScanFrom(st, today, doc, i) ==
    IF i > Len(doc) THEN st
    ELSE ScanFrom(ScanStep(st, today, doc[i]), today, doc, i + 1)

\* get_all_games_from_schedule on a loaded document, called at clock t
get_all_games_from_schedule(doc, t) ==
    ScanFrom([current_date |-> None, games |-> <<>>], TodayStr(t), doc, 1).games

-----------------------------------------------------------------------------
(* Input documents: what soup.find_all(['h3', 'p']) returns, in document   *)
(* order.                                                                  *)

MaxDocLen == 3
MaxClock == 2

Txt(t)      == [name |-> "#text", href |-> <<>>, tz |-> <<>>, text |-> t]
A(href, t)  == [name |-> "a", href |-> href, tz |-> <<>>, text |-> t]
Span(tz, t) == [name |-> "span", href |-> <<>>, tz |-> tz, text |-> t]
H3(t)       == [name |-> "h3", class |-> <<>>, children |-> <<Txt(t)>>]
P(class, children) == [name |-> "p", class |-> class, children |-> children]

HrefNYM == <<"/","t","e","a","m","s","/","N","Y","M","/","2","0","2","5">>
HrefCHC == <<"/","t","e","a","m","s","/","C","H","C","/","2","0","2","5">>
HrefCIN == <<"/","t","e","a","m","s","/","C","I","N","/">>
HrefLower == <<"/","t","e","a","m","s","/","c","h","c","/">>
HrefBox == <<"/","b","o","x","e","s","/","N","Y","N","/","1">>
Mets == <<"M","e","t","s">>
Cubs == <<"C","u","b","s">>
Reds == <<"R","e","d","s">>

\* <h3> Today's Games </h3>, <h3>Aug 4, 2025</h3>, <h3>Apr 1, 2026</h3>,
\* <h3>2025 MLB</h3>
HToday   == H3(<<" ">> \o TodaysGames \o <<"\n">>)
HAug4    == H3(<<"A","u","g"," ","4",","," ","2","0","2","5">>)
H2026    == H3(<<"A","p","r"," ","1",","," ","2","0","2","6">>)
HNoComma == H3(<<"2","0","2","5"," ","M","L","B">>)

\* Mets (3) @ Cubs (5) Boxscore
PFinal == P(<<"game">>,
            <<A(HrefNYM, Mets), Txt(<<" ","(","3",")"," ","@"," ">>),
              A(HrefCHC, Cubs), Txt(<<" ","(","5",")"," ">>), A(HrefBox, <<"B","o","x">>)>>)
\* 7:05 Mets @ Cubs
PFuture == P(<<"game">>,
             <<Span(<<"E">>, <<"7",":","0","5"," ">>), Txt(<<" ">>), A(HrefNYM, Mets),
               Txt(<<" ","@"," ">>), A(HrefCHC, <<"C","u","b","s"," ">>)>>)
\* (Spring) Mets (2) @ Cubs (1)
PSpring == P(<<"game">>,
             <<Span(<<>>, SpringMarker), A(HrefNYM, Mets), Txt(<<" ","(","2",")"," ","@"," ">>),
               A(HrefCHC, Cubs), Txt(<<" ","(","1",")">>)>>)
\* one team link only: the second href is lower case
POneLink == P(<<"game">>,
              <<A(HrefNYM, Mets), Txt(<<" ","(","4",")"," ","@"," ">>),
                A(HrefLower, Cubs), Txt(<<" ","(","2",")">>)>>)
\* a paragraph that is not a game entry
PNotGame == P(<<"note">>,
              <<A(HrefNYM, Mets), Txt(<<"(","1",")","(","2",")">>), A(HrefCHC, Cubs)>>)
\* Mets (6) @ Cubs: a single score token
POneScore == P(<<"game">>,
               <<A(HrefNYM, Mets), Txt(<<" ","(","6",")"," ","@"," ">>), A(HrefCHC, Cubs)>>)
\* Reds (07) @ Mets (12) (F) (9 Cubs (9): three tokens, three team links
PThree == P(<<"live", "game">>,
            <<A(HrefCIN, Reds), Txt(<<" ","(","0","7",")"," ","@"," ">>), A(HrefNYM, Mets),
              Txt(<<" ","(","1","2",")"," ","(","F",")"," ","(","9"," ">>),
              A(HrefCHC, Cubs), Txt(<<"(","9",")">>)>>)

Elements == {HToday, HAug4, H2026, HNoComma,
             PFinal, PFuture, PSpring, POneLink, PNotGame, POneScore, PThree}

RECURSIVE SeqsUpTo(_, _)
SeqsUpTo(S, n) ==
    IF n = 0 THEN {<<>>}
    ELSE LET shorter == SeqsUpTo(S, n - 1)
         IN  shorter \cup {Append(q, x) : q \in shorter, x \in S}

Docs == SeqsUpTo(Elements, MaxDocLen)

-----------------------------------------------------------------------------
\* History of the staleness gate.  phase "same": an update run wrote
\* successfully when the source timestamp was T_s and the source still has
\* that timestamp; "newer": the source has since been given a strictly newer
\* timestamp and no unforced update run was made after that.  clean: no other
\* run has changed the CSV since that successful update.  ran, ranClean: the
\* phase and clean the run just made started from.
NoSync == [phase |-> "none", T_s |-> 0, clean |-> FALSE,
           ran |-> "none", ranClean |-> FALSE]

SyncAfterRun(h, info, src_mtime, csvChanged) ==
    IF info.op = "update" /\ info.outcome = "written"
    THEN [phase |-> "same", T_s |-> src_mtime, clean |-> TRUE,
          ran |-> h.phase, ranClean |-> h.clean]
    ELSE IF h.phase = "none" \/ (info.op = "update" /\ ~info.force /\ h.phase = "newer")
    THEN [NoSync EXCEPT !.ran = h.phase, !.ranClean = h.clean]
    ELSE [h EXCEPT !.clean = h.clean /\ ~csvChanged,
                   !.ran = h.phase, !.ranClean = h.clean]

SyncAfterEnv(h) == [h EXCEPT !.ran = "none", !.ranClean = FALSE]

SyncAfterTouch(h, new_mtime) ==
    IF h.phase = "same" /\ new_mtime > h.T_s
    THEN SyncAfterEnv([h EXCEPT !.phase = "newer"])
    ELSE SyncAfterEnv(h)

(* Idle values of the parts a specification does not exercise *)

NoFile == [exists |-> FALSE, mtime |-> 0, content |-> <<>>]
NoRun  == [op |-> "none", force |-> FALSE, outcome |-> "none", ret |-> "None",
           extracted |-> FALSE, T_s |-> 0]

PipeIdle == /\ html = NoFile /\ csv = NoFile /\ json = NoFile /\ last = NoRun
            /\ sync = NoSync
ScanIdle == /\ sdoc = <<>> /\ pos = 0 /\ current_date = None /\ games = <<>>
            /\ today_str = <<>> /\ prev = <<>>
WpIdle   == content = <<>> /\ wp = None
OddsIdle == gameRows = <<>> /\ results = None
DayIdle  == game_sections = <<>> /\ target_date = <<>> /\ selected_days = None

\* time passes between calls
Tick ==
    /\ now < MaxClock
    /\ now' = now + 1
    /\ last' = NoRun
    /\ sync' = SyncAfterEnv(sync)
    /\ UNCHANGED <<html, csv, json, scanVars, wpVars, oddsVars, dayVars>>

-----------------------------------------------------------------------------
(* Sink writers *)

\* re.sub(r'<[^>]+>', '', text)
RECURSIVE StripTags(_)
StripTags(text) ==
    IF text = <<>> THEN text
    ELSE LET closes == {j \in 3..Len(text) :
                           text[j] = ">" /\ \A k \in 2..(j - 1) : text[k] # ">"}
         IN  IF text[1] = "<" /\ closes # {}
             THEN StripTags(SubSeq(text, (CHOOSE j \in closes : TRUE) + 1, Len(text)))
             ELSE <<text[1]>> \o StripTags(Tail(text))

\* index of the first character after the whitespace run that starts text
RECURSIVE SpaceRun(_, _)
SpaceRun(text, i) ==
    IF i <= Len(text) /\ text[i] \in Whitespace THEN SpaceRun(text, i + 1) ELSE i
SkipSpaceFrom(text) == SpaceRun(text, 1)

\* re.sub(r'\s+', ' ', text)
RECURSIVE CollapseSpace(_)
CollapseSpace(text) ==
    IF text = <<>> THEN text
    ELSE IF text[1] \in Whitespace
         THEN <<" ">> \o CollapseSpace(SubSeq(text, SkipSpaceFrom(text), Len(text)))
         ELSE <<text[1]>> \o CollapseSpace(Tail(text))

\* lines 88-90
CleanText(text) == Strip(CollapseSpace(StripTags(text)))

\* csv.DictWriter: None is written as the empty field, an int in decimal
CsvStr(o) == IF IsNone(o) THEN <<>> ELSE Val(o)
CsvInt(o) == IF IsNone(o) THEN <<>> ELSE DecStr(Val(o))

\* lines 85-92 and the row DictWriter writes for it
CsvRow(game) ==
    [date         |-> CsvStr(game.date),
     team1        |-> CsvStr(game.team1),
     team2        |-> CsvStr(game.team2),
     score1       |-> CsvInt(game.score1),
     score2       |-> CsvInt(game.score2),
     time         |-> CsvStr(game.time),
     game_type    |-> CsvStr(game.game_type),
     text_content |-> CleanText(game.text_content)]

RECURSIVE CsvRows(_)
CsvRows(gs) == IF gs = <<>> THEN <<>> ELSE <<CsvRow(gs[1])>> \o CsvRows(Tail(gs))

\* a write that failed after open(..., 'w') truncated the file
Truncated(t) == [exists |-> TRUE, mtime |-> t, content |-> <<>>]

\* a variant without the early return on an empty list: it writes the header
save_to_csv_always(gs, file, t, fault) ==
    IF fault = "csv_open" THEN [file |-> file, raised |-> TRUE]
    ELSE IF fault = "csv_write" THEN [file |-> Truncated(t), raised |-> TRUE]
    ELSE [file |-> [exists |-> TRUE, mtime |-> t, content |-> CsvRows(gs)],
          raised |-> FALSE]

\* save_to_csv(games, output_file) at clock t: the file afterwards and
\* whether the call raised.  fault "csv_open": open() raises; "csv_write":
\* the write raises after the file was opened.
save_to_csv(gs, file, t, fault) ==
    IF gs = <<>> THEN [file |-> file, raised |-> FALSE]
    ELSE IF fault = "csv_open" THEN [file |-> file, raised |-> TRUE]
    ELSE IF fault = "csv_write" THEN [file |-> Truncated(t), raised |-> TRUE]
    ELSE [file |-> [exists |-> TRUE, mtime |-> t, content |-> CsvRows(gs)],
          raised |-> FALSE]

\* save_to_json(games, output_file) at clock t
save_to_json(gs, file, t, fault) ==
    IF gs = <<>> THEN [file |-> file, raised |-> FALSE]
    ELSE IF fault = "json_open" THEN [file |-> file, raised |-> TRUE]
    ELSE IF fault = "json_write" THEN [file |-> Truncated(t), raised |-> TRUE]
    ELSE [file |-> [exists |-> TRUE, mtime |-> t, content |-> gs], raised |-> FALSE]

\* a variant that leaves the timestamp of the write in place
UtimeSkipped(file, m, fault) ==
    [file |-> file, raised |-> (fault = "utime" \/ ~file.exists)]

\* os.utime(path, (m, m))
Utime(file, m, fault) ==
    IF fault = "utime" \/ ~file.exists THEN [file |-> file, raised |-> TRUE]
    ELSE [file |-> [file EXCEPT !.mtime = m], raised |-> FALSE]

Faults == {"none", "load", "csv_open", "csv_write", "json_open", "json_write", "utime"}

-----------------------------------------------------------------------------
(* update_csv_from_html and main, one whole run per step *)

RunInfo(op, force, outcome, ret, extracted, T_s) ==
    [op |-> op, force |-> force, outcome |-> outcome, ret |-> ret,
     extracted |-> extracted, T_s |-> T_s]

\* a variant that tolerates a source one tick newer than the CSV
UpToDateWithin(force_update, csv_exists, html_mtime, csv_mtime) ==
    ~force_update /\ csv_exists /\ html_mtime <= csv_mtime + 1

\* a variant with the strict comparison
UpToDateStrict(force_update, csv_exists, html_mtime, csv_mtime) ==
    ~force_update /\ csv_exists /\ html_mtime < csv_mtime

\* line 135: the condition of the early "up to date" return
UpToDate(force_update, csv_exists, html_mtime, csv_mtime) ==
    ~force_update /\ csv_exists /\ html_mtime <= csv_mtime

\* lines 161-171: the two writes, the timestamp alignment and the return,
\* any of which may raise into the except clause of line 173
WriteAndAlign(gs, c, j, t, force, html_mtime, fault) ==
    LET w1 == save_to_csv(gs, c, t, fault)
        w2 == save_to_json(gs, j, t, fault)
        u  == Utime(w1.file, html_mtime, fault)
    IN  IF w1.raised
        THEN [csv |-> w1.file, json |-> j,
              last |-> RunInfo("update", force, "error", "False", TRUE, html_mtime)]
        ELSE IF w2.raised
        THEN [csv |-> w1.file, json |-> w2.file,
              last |-> RunInfo("update", force, "error", "False", TRUE, html_mtime)]
        ELSE IF u.raised
        THEN [csv |-> u.file, json |-> w2.file,
              last |-> RunInfo("update", force, "error", "False", TRUE, html_mtime)]
        ELSE [csv |-> u.file, json |-> w2.file,
              last |-> RunInfo("update", force, "written", "True", TRUE, html_mtime)]

\* update_csv_from_html at clock t on the files h (source), c (csv), j (json);
\* fault names the step that raises an I/O error in this run, if it is reached
update_csv_from_html(h, c, j, t, force, fault) ==
    IF ~h.exists
    THEN [csv |-> c, json |-> j,
          last |-> RunInfo("update", force, "notfound", "False", FALSE, 0)]
    ELSE LET html_mtime == h.mtime
             csv_exists == c.exists
             csv_mtime  == IF csv_exists THEN c.mtime ELSE 0
         IN  IF UpToDate(force, csv_exists, html_mtime, csv_mtime)
             THEN [csv |-> c, json |-> j,
                   last |-> RunInfo("update", force, "uptodate", "True", FALSE, html_mtime)]
             ELSE IF fault = "load"
             THEN [csv |-> c, json |-> j,
                   last |-> RunInfo("update", force, "loadfail", "False", TRUE, html_mtime)]
             ELSE LET gs == get_all_games_from_schedule(h.content, t)
                  IN  IF gs = <<>>
                      THEN [csv |-> c, json |-> j,
                            last |-> RunInfo("update", force, "empty", "False", TRUE,
                                             html_mtime)]
                      ELSE WriteAndAlign(gs, c, j, t, force, html_mtime, fault)

\* lines 214-225 of main: the document is loaded and scanned
ExtractAllLoaded(h, c, j, t, fault) ==
    LET gs == get_all_games_from_schedule(h.content, t)
        w1 == save_to_csv(gs, c, t, fault)
        w2 == save_to_json(gs, j, t, fault)
    IN  IF gs = <<>>
        THEN [csv |-> c, json |-> j,
              last |-> RunInfo("main", FALSE, "empty", "None", TRUE, h.mtime)]
        ELSE IF w1.raised
        THEN [csv |-> w1.file, json |-> j,
              last |-> RunInfo("main", FALSE, "error", "None", TRUE, h.mtime)]
        ELSE IF w2.raised
        THEN [csv |-> w1.file, json |-> w2.file,
              last |-> RunInfo("main", FALSE, "error", "None", TRUE, h.mtime)]
        ELSE [csv |-> w1.file, json |-> w2.file,
              last |-> RunInfo("main", FALSE, "written", "None", TRUE, h.mtime)]

\* a variant that opens the CSV sink for writing before it loads the document
extract_all_opening_first(h, c, j, t, fault) ==
    IF ~h.exists
    THEN [csv |-> Truncated(t), json |-> j,
          last |-> RunInfo("main", FALSE, "notfound", "None", TRUE, 0)]
    ELSE IF fault = "load"
    THEN [csv |-> Truncated(t), json |-> j,
          last |-> RunInfo("main", FALSE, "loadfail", "None", TRUE, h.mtime)]
    ELSE ExtractAllLoaded(h, c, j, t, fault)

\* main without --update / --force (lines 207-231); open() of a missing
\* source raises FileNotFoundError, fault "load" is any other failure to
\* load or parse it
extract_all(h, c, j, t, fault) ==
    IF ~h.exists
    THEN [csv |-> c, json |-> j,
          last |-> RunInfo("main", FALSE, "notfound", "None", TRUE, 0)]
    ELSE IF fault = "load"
    THEN [csv |-> c, json |-> j,
          last |-> RunInfo("main", FALSE, "loadfail", "None", TRUE, h.mtime)]
    ELSE ExtractAllLoaded(h, c, j, t, fault)

HrefA == <<"/","t","e","a","m","s","/","A","/">>
HrefB == <<"/","t","e","a","m","s","/","B","/">>
\* <p class="game"><a href="/teams/A/">A</a>(1)<a href="/teams/B/">B</a> (2)</p>
PShort == P(<<"game">>, <<A(HrefA, <<"A">>), Txt(<<"(","1",")">>),
                          A(HrefB, <<"B">>), Txt(<<" ","(","2",")">>)>>)
PipeDocs == {<<PShort>>, <<HAug4, PShort>>, <<HToday, PShort, PShort>>}

Init ==
    /\ html = NoFile /\ csv = NoFile /\ json = NoFile
    /\ now = 0
    /\ last = NoRun
    /\ sync = NoSync
    /\ ScanIdle /\ WpIdle /\ OddsIdle /\ DayIdle

\* main --update / --force
UpdateRun ==
    \E force \in BOOLEAN, fault \in Faults :
        \E r \in {update_csv_from_html(html, csv, json, now, force, fault)} :
            /\ csv' = r.csv /\ json' = r.json /\ last' = r.last
            /\ sync' = SyncAfterRun(sync, r.last, html.mtime, r.csv # csv)
            /\ UNCHANGED <<html, now, scanVars, wpVars, oddsVars, dayVars>>

\* main with neither flag
MainRun ==
    \E fault \in Faults :
        \E r \in {extract_all(html, csv, json, now, fault)} :
            /\ csv' = r.csv /\ json' = r.json /\ last' = r.last
            /\ sync' = SyncAfterRun(sync, r.last, html.mtime, r.csv # csv)
            /\ UNCHANGED <<html, now, scanVars, wpVars, oddsVars, dayVars>>

\* the games a caller can hand to a sink writer: none, or the extraction of
\* the present source document
CallerGames ==
    {<<>>} \cup (IF html.exists THEN {get_all_games_from_schedule(html.content, now)}
                 ELSE {})

\* save_to_csv called on its own
SaveCsvCall ==
    \E gs \in CallerGames :
        \E w \in {save_to_csv(gs, csv, now, "none")} :
            /\ csv' = w.file
            /\ last' = RunInfo("save_to_csv", FALSE,
                               IF gs = <<>> THEN "empty" ELSE "written", "None", FALSE, 0)
            /\ sync' = SyncAfterRun(sync, last', html.mtime, w.file # csv)
            /\ UNCHANGED <<html, json, now, scanVars, wpVars, oddsVars, dayVars>>

\* save_to_json called on its own
SaveJsonCall ==
    \E gs \in CallerGames :
        \E w \in {save_to_json(gs, json, now, "none")} :
            /\ json' = w.file
            /\ last' = RunInfo("save_to_json", FALSE,
                               IF gs = <<>> THEN "empty" ELSE "written", "None", FALSE, 0)
            /\ sync' = SyncAfterRun(sync, last', html.mtime, FALSE)
            /\ UNCHANGED <<html, csv, now, scanVars, wpVars, oddsVars, dayVars>>

\* the environment rewrites the source document, or removes it
TouchSource ==
    \E d \in PipeDocs :
        /\ html' = [exists |-> TRUE, mtime |-> now, content |-> d]
        /\ last' = NoRun
        /\ sync' = SyncAfterTouch(sync, now)
        /\ UNCHANGED <<csv, json, now, scanVars, wpVars, oddsVars, dayVars>>

RemoveSource ==
    /\ html.exists
    /\ html' = NoFile
    /\ last' = NoRun
    /\ sync' = NoSync
    /\ UNCHANGED <<csv, json, now, scanVars, wpVars, oddsVars, dayVars>>

Next == UpdateRun \/ MainRun \/ SaveCsvCall \/ SaveJsonCall
           \/ TouchSource \/ RemoveSource \/ Tick

Spec == Init /\ [][Next]_vars

-----------------------------------------------------------------------------
(* Properties of the runs (Spec).  last describes the run a step has just   *)
(* made; the unprimed files are the files that run found.                  *)

\* C1: with the source present, an update run proceeds to extraction iff the
\* CSV is absent or force is requested or T_s > T_o; otherwise it reports
\* "up to date", returns True and leaves both sinks as they were.
C1_StalenessGate ==
    [][(last'.op = "update" /\ html.exists) =>
          /\ last'.extracted <=> (~csv.exists \/ last'.force \/ html.mtime > csv.mtime)
          /\ ~last'.extracted =>
                /\ last'.outcome = "uptodate" /\ last'.ret = "True"
                /\ csv' = csv /\ json' = json]_vars

\* an unforced run found T_s = T_o and skipped
C1_Witness ==
    /\ last.op = "update" /\ last.outcome = "uptodate" /\ ~last.force
    /\ html.exists /\ csv.exists /\ html.mtime = csv.mtime

\* C2: after an update run that wrote and returned True, the CSV timestamp is
\* the source timestamp the run read.
C2_TimestampAligned ==
    (last.op = "update" /\ last.outcome = "written") =>
        /\ last.ret = "True"
        /\ csv.exists /\ csv.mtime = last.T_s
        /\ html.exists /\ last.T_s = html.mtime

\* the write happened after the source was last touched
C2_Witness ==
    /\ last.op = "update" /\ last.outcome = "written"
    /\ html.mtime < now /\ json.mtime = now /\ csv.mtime = html.mtime

\* C3: a run that finds no source, or fails to load it, changes neither sink,
\* in update mode and in extract-all mode.
C3_NoPartialWrites ==
    [][(/\ last'.op \in {"update", "main"}
        /\ (~html.exists \/ last'.outcome = "loadfail"))
          => /\ csv' = csv /\ json' = json
             /\ last'.outcome \in {"notfound", "loadfail"}]_vars

\* a forced run failed to load the source while both sinks existed
C3_Witness ==
    /\ last.op = "update" /\ last.force /\ last.outcome = "loadfail"
    /\ csv.exists /\ json.exists

\* C4: a run whose extraction is empty, and a sink writer called with an empty
\* list, leave both sinks as they were: no file is created, none is rewritten
\* and no timestamp is aligned.
C4_EmptyWritesNothing ==
    [][(last'.outcome = "empty") => (csv' = csv /\ json' = json)]_vars

\* an update run proceeded on a newer source, extracted nothing and left the
\* existing CSV with its older timestamp
C4_Witness ==
    /\ last.op = "update" /\ last.outcome = "empty"
    /\ csv.exists /\ html.mtime > csv.mtime /\ ~json.exists

\* a step that is an update run made without force
UnforcedUpdate == last'.op = "update" /\ ~last'.force

\* C13 as stated: after a successful update, every unforced update run made
\* while the source timestamp is unchanged reports "up to date" and leaves
\* both sinks as they were, and once the source has a strictly newer
\* timestamp the next unforced update run proceeds, whatever runs came between.
C13_NoRedundantWork ==
    [][UnforcedUpdate =>
          /\ sync.phase = "same" =>
                /\ last'.outcome = "uptodate" /\ last'.ret = "True"
                /\ csv' = csv /\ json' = json
          /\ sync.phase = "newer" => last'.extracted]_vars

\* C13: after a successful update, every unforced update run made while the
\* source timestamp is unchanged reports "up to date" and leaves both sinks
\* as they were, whatever runs came between; once the source has a strictly
\* newer timestamp the next unforced update run proceeds, provided no other
\* run has changed the CSV since that successful update.
C13_NoRedundantWorkWhileClean ==
    [][UnforcedUpdate =>
          /\ sync.phase = "same" =>
                /\ last'.outcome = "uptodate" /\ last'.ret = "True"
                /\ csv' = csv /\ json' = json
          /\ (sync.phase = "newer" /\ sync.clean) => last'.extracted]_vars

\* the first unforced update run after the source was given a strictly newer
\* timestamp proceeded and wrote; the CSV it found was still the one the
\* earlier successful update had left
C13_Witness ==
    /\ last.op = "update" /\ ~last.force /\ last.outcome = "written"
    /\ sync.ran = "newer" /\ sync.ranClean
    /\ sync.phase = "same" /\ sync.T_s = html.mtime /\ csv.mtime = html.mtime

\* C14: an update run either leaves both sinks holding the records it
\* extracted, with the CSV timestamp aligned to the source, or leaves both
\* sinks as it found them; a run that returns False does not leave a CSV it
\* changed whose timestamp makes an unforced update of the same source skip.
C14_SinksTogether ==
    [][(last'.op = "update") =>
          /\ \/ csv' = csv /\ json' = json
             \/ /\ html.exists /\ csv'.exists /\ json'.exists
                /\ \E gs \in {get_all_games_from_schedule(html.content, now)} :
                      csv'.content = CsvRows(gs) /\ json'.content = gs
                /\ csv'.mtime = html.mtime
          /\ last'.ret = "False" =>
                ~(csv' # csv /\ UpToDate(FALSE, csv'.exists, html.mtime, csv'.mtime))]_vars

-----------------------------------------------------------------------------
(* The forward scan of get_all_games_from_schedule, one element per step *)

ScanInit ==
    /\ sdoc \in Docs
    /\ now \in 0..MaxClock
    /\ pos = 0 /\ current_date = None /\ games = <<>> /\ today_str = <<>>
    /\ prev = <<>>
    /\ PipeIdle /\ WpIdle /\ OddsIdle /\ DayIdle

\* lines 20-24: games = [], current_date = None, today_str = ...
ScanBegin ==
    /\ pos = 0 /\ prev = <<>>
    /\ games' = <<>>
    /\ current_date' = None
    /\ today_str' = TodayStr(now)
    /\ pos' = 1
    /\ UNCHANGED <<sdoc, prev, now, pipeVars, wpVars, oddsVars, dayVars>>

\* the branch of the loop body an element takes
Branch(el) == IF IsHeading(el) THEN "h3" ELSE IF IsGamePara(el) THEN "game" ELSE "other"

\* the loop body applied to the element at pos
ScanElement ==
    /\ \E st \in {ScanStep([current_date |-> current_date, games |-> games],
                            today_str, sdoc[pos])} :
          current_date' = st.current_date /\ games' = st.games
    /\ pos' = pos + 1
    /\ UNCHANGED <<sdoc, today_str, prev, now, pipeVars, wpVars, oddsVars, dayVars>>

ScanHeading ==
    /\ pos >= 1 /\ pos <= Len(sdoc)
    /\ Branch(sdoc[pos]) = "h3"
    /\ ScanElement

ScanGame ==
    /\ pos >= 1 /\ pos <= Len(sdoc)
    /\ Branch(sdoc[pos]) = "game"
    /\ ScanElement

ScanOther ==
    /\ pos >= 1 /\ pos <= Len(sdoc)
    /\ Branch(sdoc[pos]) = "other"
    /\ ScanElement

\* line 73: return games
ScanReturn ==
    /\ pos = Len(sdoc) + 1
    /\ prev' = <<[games |-> games, today |-> today_str]>>
    /\ pos' = 0
    /\ UNCHANGED <<sdoc, current_date, games, today_str, now, pipeVars, wpVars, oddsVars, dayVars>>

ScanNext == ScanBegin \/ ScanHeading \/ ScanGame \/ ScanOther \/ ScanReturn \/ Tick

ScanSpec == ScanInit /\ [][ScanNext]_vars

-----------------------------------------------------------------------------
(* Properties of the forward scan (ScanSpec).  The document is described   *)
(* here by position, independently of the loop that consumes it.           *)

\* number of elements the loop has consumed
Consumed == IF pos >= 1 THEN pos - 1 ELSE IF prev = <<>> THEN 0 ELSE Len(sdoc)

HasChar(t, c) == \E i \in DOMAIN t : t[i] = c
Has2025(t) == \E i \in 1..(Len(t) - 3) : SubSeq(t, i, i + 3) = <<"2", "0", "2", "5">>
\* a maximal run of exactly four digits
HasYearToken(t) ==
    \E i \in 1..(Len(t) - 3) :
        /\ \A k \in i..(i + 3) : t[k] \in Digits
        /\ (i = 1 \/ t[i - 1] \notin Digits)
        /\ (i + 3 = Len(t) \/ t[i + 4] \notin Digits)

HeadingText(i) == GetTextStrip(sdoc[i])
IsPlaceholder(i) == sdoc[i].name = "h3" /\ HeadingText(i) = TodaysGames
DatedHeading(i) ==
    /\ sdoc[i].name = "h3" /\ ~IsPlaceholder(i)
    /\ HasChar(HeadingText(i), ",") /\ Has2025(HeadingText(i))
DatedHeadingAnyYear(i) ==
    /\ sdoc[i].name = "h3" /\ ~IsPlaceholder(i)
    /\ HasChar(HeadingText(i), ",") /\ HasYearToken(HeadingText(i))
Adopting(i) == IsPlaceholder(i) \/ DatedHeading(i)

SetMax(S) == CHOOSE m \in S : \A x \in S : x <= m

\* the date context in force when element i is reached
ContextAt(i) ==
    LET H == {j \in 1..(i - 1) : Adopting(j)}
    IN  IF H = {} THEN None
        ELSE IF IsPlaceholder(SetMax(H)) THEN Some(today_str)
        ELSE Some(HeadingText(SetMax(H)))

TeamLinkIdx(el) == {k \in DOMAIN el.children : IsTeamLink(el.children[k])}
HasMarker(t) == \E k \in 1..(Len(t) - 7) : SubSeq(t, k, k + 7) = SpringMarker
GameParagraph(i) == sdoc[i].name = "p" /\ "game" \in {sdoc[i].class[k] : k \in DOMAIN sdoc[i].class}

Qualifies(i) ==
    /\ GameParagraph(i)
    /\ ContextAt(i) # None
    /\ ~HasMarker(GetText(sdoc[i]))
    /\ Cardinality(TeamLinkIdx(sdoc[i])) >= 2

Qualified == {i \in 1..Consumed : Qualifies(i)}
Rank(i) == Cardinality({j \in Qualified : j <= i})
SetMin(S) == CHOOSE m \in S : \A x \in S : m <= x

\* C5: every game paragraph consumed so far has exactly one record iff a date
\* context was active when it was reached, its text has no exhibition marker
\* and it holds at least two team links; the records are in document order and
\* team1/team2 are the texts of the first two team links.
C5_EmissionCondition ==
    /\ Len(games) = Cardinality(Qualified)
    /\ \A i \in Qualified :
          LET r  == games[Rank(i)]
              k1 == SetMin(TeamLinkIdx(sdoc[i]))
              k2 == SetMin(TeamLinkIdx(sdoc[i]) \ {k1})
          IN  /\ r.raw_html = sdoc[i]
              /\ r.team1 = Some(Strip(sdoc[i].children[k1].text))
              /\ r.team2 = Some(Strip(sdoc[i].children[k2].text))

\* the scan is over, and the document held an emitted paragraph as well as
\* game paragraphs dropped for each of the three reasons
C5_Witness ==
    /\ pos = Len(sdoc) + 1
    /\ Qualified # {}
    /\ \E i \in 1..Len(sdoc) : GameParagraph(i) /\ ~Qualifies(i)

\* C6: every record emitted so far carries a non-null date, the context set by
\* the most recent adopting heading before its paragraph; with no adopting
\* heading consumed nothing has been emitted.
C6_DateContext ==
    /\ \A i \in Qualified :
          /\ games[Rank(i)].date # None
          /\ games[Rank(i)].date = ContextAt(i)
    /\ \A n \in 1..Len(games) : games[n].date # None
    /\ ({j \in 1..Consumed : Adopting(j)} = {}) => games = <<>>

\* a record was emitted after two adopting headings with different contexts
C6_Witness ==
    \E i \in Qualified :
        /\ Cardinality({j \in 1..(i - 1) : Adopting(j)}) >= 2
        /\ ContextAt(i) # ContextAt(i - 1)

\* the date strftime renders at clock t, spelled out
CalendarDate(t) ==
    WeekdayNames[((t \div TicksPerDay) % 7) + 1]
        \o <<",", " ", "A", "u", "g", "u", "s", "t", " ">>
        \o DecStr(4 + (t \div TicksPerDay)) \o <<",", " ", "2", "0", "2", "5">>

HeadingStepTaken == pos >= 1 /\ pos <= Len(sdoc) /\ pos' = pos + 1 /\ sdoc[pos].name = "h3"

\* C7 as amended: on a heading other than the placeholder the context becomes
\* the heading text iff the text holds a comma and the substring "2025", and
\* is unchanged otherwise; on the placeholder it becomes today_str, the date
\* rendered when the run started.
C7_HeadingRule ==
    [][HeadingStepTaken =>
          current_date' = IF IsPlaceholder(pos) THEN Some(today_str)
                          ELSE IF DatedHeading(pos) THEN Some(HeadingText(pos))
                          ELSE current_date]_vars

\* C7 as claimed: any four-digit year token is adopted, and the placeholder
\* gives the date of the moment the heading is reached
C7_AnyYearRule ==
    [][HeadingStepTaken =>
          current_date' = IF IsPlaceholder(pos) THEN Some(CalendarDate(now))
                          ELSE IF DatedHeadingAnyYear(pos) THEN Some(HeadingText(pos))
                          ELSE current_date]_vars

\* a dated heading has replaced the context of the placeholder
C7_Witness ==
    /\ pos >= 3
    /\ IsPlaceholder(pos - 2) /\ DatedHeading(pos - 1)
    /\ current_date = Some(HeadingText(pos - 1))

\* the parenthesized integer tokens of a text, by position of their "("
TokenStarts(t) ==
    {i \in DOMAIN t :
        /\ t[i] = "("
        /\ \E j \in (i + 2)..Len(t) :
              t[j] = ")" /\ \A k \in (i + 1)..(j - 1) : t[k] \in Digits}
TokenEnd(t, i) == SetMin({j \in (i + 2)..Len(t) : t[j] = ")"})
RECURSIVE Pow10(_)
Pow10(n) == IF n = 0 THEN 1 ELSE 10 * Pow10(n - 1)
RECURSIVE DigitsValue(_, _, _)
DigitsValue(t, a, b) ==
    IF a > b THEN 0
    ELSE DigitVal(t[a]) * Pow10(b - a) + DigitsValue(t, a + 1, b)
TokenValue(t, i) == DigitsValue(t, i + 1, TokenEnd(t, i) - 1)
NthToken(t, n) == CHOOSE i \in TokenStarts(t) :
                      Cardinality({x \in TokenStarts(t) : x <= i}) = n

\* C8: the scores of an emitted record are decided by the parenthesized integer
\* tokens of its text: none -> both None; one -> score1 only; two or more ->
\* the first two in order.
C8_ScoreAssignment ==
    \A n \in 1..Len(games) :
        LET t == games[n].text_content
            c == Cardinality(TokenStarts(t))
        IN  /\ c = 0 => games[n].score1 = None /\ games[n].score2 = None
            /\ c = 1 => /\ games[n].score1 = Some(TokenValue(t, NthToken(t, 1)))
                        /\ games[n].score2 = None
            /\ c >= 2 => /\ games[n].score1 = Some(TokenValue(t, NthToken(t, 1)))
                         /\ games[n].score2 = Some(TokenValue(t, NthToken(t, 2)))

\* records with one token and with three tokens have been emitted
C8_Witness ==
    /\ \E n \in 1..Len(games) : Cardinality(TokenStarts(games[n].text_content)) = 1
    /\ \E n \in 1..Len(games) : Cardinality(TokenStarts(games[n].text_content)) >= 3

-----------------------------------------------------------------------------
(* Repeated calls of get_all_games_from_schedule on one unmodified document *)

MaxIdemDocLen == 2
MaxRuns == 2

IdemInit ==
    /\ sdoc \in SeqsUpTo(Elements, MaxIdemDocLen)
    /\ now = 0
    /\ prev = <<>>
    /\ pos = 0 /\ current_date = None /\ games = <<>> /\ today_str = <<>>
    /\ PipeIdle /\ WpIdle /\ OddsIdle /\ DayIdle

\* one whole call; its result and the clock of the call are recorded
ExtractCall ==
    /\ Len(prev) < MaxRuns
    /\ prev' = Append(prev, [games |-> get_all_games_from_schedule(sdoc, now),
                             at    |-> now])
    /\ UNCHANGED <<sdoc, pos, current_date, games, today_str, now, pipeVars, wpVars, oddsVars, dayVars>>

IdemNext == ExtractCall \/ Tick

IdemSpec == IdemInit /\ [][IdemNext]_vars

HasPlaceholder == \E i \in DOMAIN sdoc : IsPlaceholder(i)

\* C9 as claimed: any two calls on the same document return the same records
C9_Idempotent ==
    \A i, j \in DOMAIN prev : prev[i].games = prev[j].games

\* C9 as amended: two calls on the same document return the same records when
\* the document has no "Today's Games" heading or both calls are made on the
\* same calendar date.
C9_IdempotentSameDay ==
    \A i, j \in DOMAIN prev :
        (~HasPlaceholder \/ CalendarDate(prev[i].at) = CalendarDate(prev[j].at))
            => prev[i].games = prev[j].games

\* two calls at different clock readings of one day on a document whose
\* placeholder heading dates a record
C9_Witness ==
    \E i, j \in DOMAIN prev :
        /\ i < j /\ prev[i].at < prev[j].at
        /\ HasPlaceholder /\ CalendarDate(prev[i].at) = CalendarDate(prev[j].at)
        /\ \E n \in DOMAIN prev[i].games :
              prev[i].games[n].date = Some(CalendarDate(prev[i].at))

-----------------------------------------------------------------------------
\* extract_initial_win_prob.  The file text is the sequence of its
\* occurrences of the two shapes, in file order:
\*   [shape |-> "wnPrb", body |-> b]: one match of the first pattern
\*       ("wnPrb": { "pts": { b }), b being its group, free of "}"
\*   [shape |-> "mtchpPrdctr", body |-> b]: one occurrence of
\*       "mtchpPrdctr": { "teams": [ { ... "value": followed by the text b

MaxBlocks == 3

NumChars == Digits \cup {"."}

\* length of the run of [\d.] characters at text[i], text[i+1], ...
RECURSIVE NumRun(_, _)
NumRun(text, i) ==
    IF i <= Len(text) /\ text[i] \in NumChars THEN 1 + NumRun(text, i + 1) ELSE 0

\* index of the first non-whitespace character at or after i (the \s*)
RECURSIVE SkipSpace(_, _)
SkipSpace(text, i) ==
    IF i <= Len(text) /\ text[i] \in Whitespace THEN SkipSpace(text, i + 1) ELSE i

\* the group of \s*([\d.]+) matched at index i, or None
NumberAt(text, i) ==
    LET j == SkipSpace(text, i)
        n == NumRun(text, j)
    IN  IF n >= 1 THEN Some(SubSeq(text, j, j + n - 1)) ELSE None

\* re.search(r':\s*([\d.]+)', text): the group of the leftmost match, or None
RECURSIVE SearchColonNumber(_, _)
SearchColonNumber(text, i) ==
    IF i > Len(text) THEN None
    ELSE IF text[i] = ":" /\ ~IsNone(NumberAt(text, i + 1)) THEN NumberAt(text, i + 1)
    ELSE SearchColonNumber(text, i + 1)

IsWn(b) == b.shape = "wnPrb"
IsMt(b) == b.shape = "mtchpPrdctr" /\ ~IsNone(NumberAt(b.body, 1))

\* float(s) raises ValueError unless s has a digit and at most one point
FloatOk(s) ==
    /\ \E i \in DOMAIN s : s[i] \in Digits
    /\ Cardinality({i \in DOMAIN s : s[i] = "."}) <= 1

RECURSIVE Normal(_, _)
Normal(num, scale) ==
    IF scale > 0 /\ num % 10 = 0 THEN Normal(num \div 10, scale - 1)
    ELSE [num |-> num, scale |-> scale]

\* float(s) as the decimal num / 10^scale in lowest terms
Float(s) ==
    LET IsDigit(c) == c \in Digits
        dots  == {i \in DOMAIN s : s[i] = "."}
        scale == IF dots = {} THEN 0 ELSE Len(s) - (CHOOSE i \in dots : TRUE)
    IN  Normal(ParseInt(SelectSeq(s, IsDigit)), scale)

\* lines 16-22: the second shape
SecondShape(text) ==
    LET hits == SelectSeq(text, IsMt)
    IN  IF hits # <<>>
        THEN LET tok == Val(NumberAt(hits[1].body, 1))
             IN  IF FloatOk(tok)
                 THEN [kind |-> "return", value |-> Some(Float(tok)), second |-> TRUE]
                 ELSE [kind |-> "raise", value |-> None, second |-> TRUE]
        ELSE [kind |-> "return", value |-> None, second |-> TRUE]

\* a variant that tries the second shape only when no wnPrb occurrence exists
extract_without_fallthrough(text) ==
    LET probs == SelectSeq(text, IsWn)
        match == IF probs # <<>> THEN SearchColonNumber(probs[1].body, 1) ELSE None
    IN  IF probs # <<>>
        THEN IF IsNone(match)
             THEN [kind |-> "return", value |-> None, second |-> FALSE]
             ELSE IF FloatOk(Val(match))
                  THEN [kind |-> "return", value |-> Some(Float(Val(match))), second |-> FALSE]
                  ELSE [kind |-> "raise", value |-> None, second |-> FALSE]
        ELSE SecondShape(text)

\* lines 7-22: the outcome of the call on file text `text`
extract_initial_win_prob(text) ==
    LET probs == SelectSeq(text, IsWn)
        match == IF probs # <<>> THEN SearchColonNumber(probs[1].body, 1) ELSE None
    IN  IF probs # <<>> /\ ~IsNone(match)
        THEN IF FloatOk(Val(match))
             THEN [kind |-> "return", value |-> Some(Float(Val(match))), second |-> FALSE]
             ELSE [kind |-> "raise", value |-> None, second |-> FALSE]
        ELSE SecondShape(text)

Wn(body) == [shape |-> "wnPrb", body |-> body]
Mt(body) == [shape |-> "mtchpPrdctr", body |-> body]

\* "wnPrb":{"pts":{"a": 0.55}}, {"a":null,"b":7}, {"a":null}, {"t":1.2.3}
WnNumber  == Wn(<<"\"","a","\"",":"," ","0",".","5","5">>)
WnSecond  == Wn(<<"\"","a","\"",":","n","u","l","l",",","\"","b","\"",":","7">>)
WnNull    == Wn(<<"\"","a","\"",":","n","u","l","l">>)
WnBad     == Wn(<<"\"","t","\"",":","1",".","2",".","3">>)
\* "value": 61.50, "value":null, "value":..
MtNumber  == Mt(<<" ","6","1",".","5","0">>)
MtNull    == Mt(<<"n","u","l","l">>)
MtBad     == Mt(<<".",".">>)

WpBlocks == {WnNumber, WnSecond, WnNull, WnBad, MtNumber, MtNull, MtBad}

WpInit ==
    /\ content \in SeqsUpTo(WpBlocks, MaxBlocks)
    /\ wp = None
    /\ now = 0
    /\ PipeIdle /\ ScanIdle /\ OddsIdle /\ DayIdle

WinProbCall ==
    /\ wp = None
    /\ wp' = Some(extract_initial_win_prob(content))
    /\ UNCHANGED <<content, now, pipeVars, scanVars, oddsVars, dayVars>>

WpNext == WinProbCall

WinProbSpec == WpInit /\ [][WpNext]_vars

\* the group the first wnPrb occurrence yields, and the group of the first
\* mtchpPrdctr occurrence that is followed by a number
FirstOf(S) == CHOOSE i \in S : \A k \in S : i <= k
WnBlocks == {i \in DOMAIN content : content[i].shape = "wnPrb"}
MtBlocks == {i \in DOMAIN content :
                /\ content[i].shape = "mtchpPrdctr"
                /\ ~IsNone(NumberAt(content[i].body, 1))}
Yield1 == IF WnBlocks = {} THEN None
          ELSE SearchColonNumber(content[FirstOf(WnBlocks)].body, 1)
Yield2 == IF MtBlocks = {} THEN None
          ELSE NumberAt(content[FirstOf(MtBlocks)].body, 1)

\* C10: the first shape (the first wnPrb occurrence) is tried first and its
\* number is the result; the second shape is consulted iff the first yields no
\* number, and its number is then the result; None is returned iff neither
\* yields a number.  A group that float() rejects makes the call raise.
C10_PriorityOrder ==
    wp # None =>
        LET r == Val(wp)
        IN  /\ r.second <=> IsNone(Yield1)
            /\ (~IsNone(Yield1) /\ FloatOk(Val(Yield1)))
                  => r.kind = "return" /\ r.value = Some(Float(Val(Yield1)))
            /\ (IsNone(Yield1) /\ ~IsNone(Yield2) /\ FloatOk(Val(Yield2)))
                  => r.kind = "return" /\ r.value = Some(Float(Val(Yield2)))
            /\ (r.kind = "return" /\ r.value = None)
                  <=> (IsNone(Yield1) /\ IsNone(Yield2))
            /\ r.kind = "raise"
                  <=> \/ ~IsNone(Yield1) /\ ~FloatOk(Val(Yield1))
                      \/ IsNone(Yield1) /\ ~IsNone(Yield2) /\ ~FloatOk(Val(Yield2))

\* a wnPrb occurrence without a number came first and the number of the second
\* shape was returned
C10_Witness ==
    /\ wp # None
    /\ WnBlocks # {} /\ IsNone(Yield1)
    /\ Val(wp).second /\ Val(wp).kind = "return" /\ Val(wp).value # None

-----------------------------------------------------------------------------
(* odds_scrape.py: extract_odds_from_html, from the parsed gameRows list on. *)
(* A JSON value that is null or an absent key is None; odds values are kept  *)
(* as their JSON tokens.                                                     *)

\* lines 7-74: TEAM_CODE_MAP, as (display name, code) pairs
TEAM_CODE_MAP == {
    <<"Arizona Diamondbacks", "ARI">>, <<"Arizona", "ARI">>,
    <<"Atlanta Braves", "ATL">>, <<"Atlanta", "ATL">>,
    <<"Baltimore Orioles", "BAL">>, <<"Baltimore", "BAL">>,
    <<"Boston Red Sox", "BOS">>, <<"Boston", "BOS">>,
    <<"Chicago White Sox", "CWS">>, <<"Chi. White Sox", "CWS">>,
    <<"White Sox", "CWS">>,
    <<"Chicago Cubs", "CHC">>, <<"Chi. Cubs", "CHC">>, <<"Cubs", "CHC">>,
    <<"Cincinnati Reds", "CIN">>, <<"Cincinnati", "CIN">>,
    <<"Cleveland Guardians", "CLE">>, <<"Cleveland", "CLE">>,
    <<"Colorado Rockies", "COL">>, <<"Colorado", "COL">>,
    <<"Detroit Tigers", "DET">>, <<"Detroit", "DET">>,
    <<"Houston Astros", "HOU">>, <<"Houston", "HOU">>,
    <<"Kansas City Royals", "KC">>, <<"Kansas City", "KC">>,
    <<"Los Angeles Angels", "LAA">>, <<"LA Angels", "LAA">>,
    <<"Angels", "LAA">>,
    <<"Los Angeles Dodgers", "LAD">>, <<"LA Dodgers", "LAD">>,
    <<"Dodgers", "LAD">>,
    <<"Miami Marlins", "MIA">>, <<"Miami", "MIA">>,
    <<"Milwaukee Brewers", "MIL">>, <<"Milwaukee", "MIL">>,
    <<"Minnesota Twins", "MIN">>, <<"Minnesota", "MIN">>,
    <<"New York Yankees", "NYY">>, <<"NY Yankees", "NYY">>,
    <<"Yankees", "NYY">>,
    <<"New York Mets", "NYM">>, <<"NY Mets", "NYM">>, <<"Mets", "NYM">>,
    <<"Oakland Athletics", "OAK">>, <<"Oakland", "OAK">>,
    <<"Philadelphia Phillies", "PHI">>, <<"Philadelphia", "PHI">>,
    <<"Pittsburgh Pirates", "PIT">>, <<"Pittsburgh", "PIT">>,
    <<"San Diego Padres", "SD">>, <<"San Diego", "SD">>,
    <<"San Francisco Giants", "SF">>, <<"San Francisco", "SF">>,
    <<"Seattle Mariners", "SEA">>, <<"Seattle", "SEA">>,
    <<"St. Louis Cardinals", "STL">>, <<"St. Louis", "STL">>,
    <<"Tampa Bay Rays", "TB">>, <<"Tampa Bay", "TB">>,
    <<"Texas Rangers", "TEX">>, <<"Texas", "TEX">>,
    <<"Toronto Blue Jays", "TOR">>, <<"Toronto", "TOR">>,
    <<"Washington Nationals", "WSH">>, <<"Washington", "WSH">> }

\* lines 95-96: TEAM_CODE_MAP.get(name, name)
TeamCodeGet(name) ==
    IF \E p \in TEAM_CODE_MAP : p[1] = name
    THEN (CHOOSE p \in TEAM_CODE_MAP : p[1] = name)[2]
    ELSE name

IsLeap(y) == (y % 4 = 0 /\ y % 100 # 0) \/ y % 400 = 0
DaysInMonth(y, m) ==
    IF m = 2 THEN (IF IsLeap(y) THEN 29 ELSE 28)
    ELSE IF m \in {4, 6, 9, 11} THEN 30 ELSE 31

AllDigits(s, a, b) == \A k \in a..b : s[k] \in Digits

\* datetime.strptime(s, "%Y-%m-%d"): four digits, '-', a month of one or two
\* digits, '-', a day of one or two digits (or a space and a digit), nothing
\* left over, and a date that exists; None stands for ValueError
Strptime(s) ==
    LET n == Len(s)
        splits == {ml \in {1, 2} :
                      /\ n \in {7 + ml + 1, 7 + ml + 2}
                      /\ AllDigits(s, 1, 4) /\ s[5] = "-"
                      /\ AllDigits(s, 6, 5 + ml) /\ s[6 + ml] = "-"
                      /\ \/ AllDigits(s, 7 + ml, n)
                         \/ n = 7 + ml + 2 /\ s[7 + ml] = " "
                                           /\ s[n] \in Digits \ {"0"}}
    IN  IF splits = {} THEN None
        ELSE LET ml == CHOOSE x \in splits : TRUE
                 y  == DigitsValue(s, 1, 4)
                 m  == DigitsValue(s, 6, 5 + ml)
                 d  == IF s[7 + ml] = " " THEN DigitVal(s[n])
                       ELSE DigitsValue(s, 7 + ml, n)
             IN  IF y >= 1 /\ m \in 1..12 /\ d \in 1..DaysInMonth(y, m)
                 THEN Some([year |-> y, month |-> m, day |-> d])
                 ELSE None

Pad2(k) == IF k < 10 THEN <<"0">> \o DecStr(k) ELSE DecStr(k)

\* .strftime("%d-%m-%Y")
Strftime(dt) == Pad2(dt.day) \o <<"-">> \o Pad2(dt.month) \o <<"-">> \o DecStr(dt.year)

\* a variant that takes the last matching odds view
RECURSIVE bet365_last(_)
bet365_last(oddsViews) ==
    IF oddsViews = <<>> THEN None
    ELSE LET o == oddsViews[Len(oddsViews)]
         IN  IF ~IsNone(o) /\ Val(o).sportsbook = Some("bet365") THEN o
             ELSE bet365_last(SubSeq(oddsViews, 1, Len(oddsViews) - 1))

\* line 100: next((o for o in game["oddsViews"]
\*                 if o and o.get("sportsbook") == "bet365"), None)
RECURSIVE bet365(_)
bet365(oddsViews) ==
    IF oddsViews = <<>> THEN None
    ELSE LET o == oddsViews[1]
         IN  IF ~IsNone(o) /\ Val(o).sportsbook = Some("bet365") THEN o
             ELSE bet365(Tail(oddsViews))

\* lines 89-116: the row of one game, or None when a statement raises
\* (strptime on the date, a null starter, a missing currentLine)
ResultRow(game) ==
    LET gv == game.gameView
        date_iso == SubSeq(gv.startDate, 1,
                           IF Len(gv.startDate) < 10 THEN Len(gv.startDate) ELSE 10)
        dt == Strptime(date_iso)
        b  == bet365(game.oddsViews)
    IN  IF IsNone(dt) \/ IsNone(gv.awayStarter) \/ IsNone(gv.homeStarter)
        THEN None
        ELSE IF ~IsNone(b) /\ IsNone(Val(b).currentLine) THEN None
        ELSE Some([date     |-> Strftime(Val(dt)),
                   team1    |-> TeamCodeGet(gv.awayTeam.displayName),
                   team2    |-> TeamCodeGet(gv.homeTeam.displayName),
                   pitcher1 |-> Val(gv.awayStarter).firstName \o " "
                                    \o Val(gv.awayStarter).lastName,
                   pitcher2 |-> Val(gv.homeStarter).firstName \o " "
                                    \o Val(gv.homeStarter).lastName,
                   away_odds |-> IF IsNone(b) THEN "N/A"
                                 ELSE Val(Val(b).currentLine).awayOdds,
                   home_odds |-> IF IsNone(b) THEN "N/A"
                                 ELSE Val(Val(b).currentLine).homeOdds])

\* lines 87-117: the loop over games; an exception leaves the function
RECURSIVE OddsLoop(_, _)
OddsLoop(gs, acc) ==
    IF gs = <<>> THEN [kind |-> "return", rows |-> acc]
    ELSE LET row == ResultRow(gs[1])
         IN  IF IsNone(row) THEN [kind |-> "raise", rows |-> <<>>]
             ELSE OddsLoop(Tail(gs), Append(acc, Val(row)))

extract_odds_from_html(gs) == OddsLoop(gs, <<>>)

MaxGames == 2

Line(a, h)   == Some([awayOdds |-> a, homeOdds |-> h])
View(sb, ln) == Some([sportsbook |-> sb, currentLine |-> ln])
VBetA      == View(Some("bet365"), Line("-150", "130"))
VBetB      == View(Some("bet365"), Line("110", "-130"))
VBetNoLine == View(Some("bet365"), None)
VOther     == View(Some("draftkings"), Line("-145", "125"))
VNoBook    == View(None, Line("-140", "120"))

Starter(f, l) == Some([firstName |-> f, lastName |-> l])
Gallen == Starter("Zac", "Gallen")
Steele == Starter("Justin", "Steele")

GameRow(d, away, home, s1, s2, views) ==
    [gameView |-> [startDate |-> d,
                   awayTeam |-> [displayName |-> away],
                   homeTeam |-> [displayName |-> home],
                   awayStarter |-> s1, homeStarter |-> s2],
     oddsViews |-> views]

\* 2025-03-18T20:05:00, 2025-3-8, 18/03/2025, 2025-02-29
DateIso    == <<"2","0","2","5","-","0","3","-","1","8","T","2","0",":","0","5",
                ":","0","0">>
DateShort  == <<"2","0","2","5","-","3","-","8">>
DateSlash  == <<"1","8","/","0","3","/","2","0","2","5">>
DateFeb29  == <<"2","0","2","5","-","0","2","-","2","9">>

GFirstOfTwo == GameRow(DateIso, "Arizona Diamondbacks", "Chi. Cubs", Gallen, Steele,
                       <<None, VOther, VBetA, VBetB>>)
GNoBet      == GameRow(DateIso, "Team Japan", "Dodgers", Steele, Gallen,
                       <<VOther, VNoBook, None>>)
GNoViews    == GameRow(DateShort, "Mets", "arizona", Gallen, Gallen, <<>>)
GLineLater  == GameRow(DateIso, "Texas", "Toronto", Gallen, Steele,
                       <<VBetB, VBetNoLine>>)
GBadDate    == GameRow(DateSlash, "Texas", "Toronto", Gallen, Steele, <<VBetA>>)
GNoSuchDay  == GameRow(DateFeb29, "Texas", "Toronto", Gallen, Steele, <<VBetA>>)
GNoStarter  == GameRow(DateIso, "Texas", "Toronto", None, Steele, <<VBetA>>)
GNoLine     == GameRow(DateIso, "Texas", "Toronto", Gallen, Steele,
                       <<VBetNoLine, VBetA>>)

GameRowSet == {GFirstOfTwo, GNoBet, GNoViews, GLineLater, GBadDate, GNoSuchDay,
               GNoStarter, GNoLine}

OddsInit ==
    /\ gameRows \in SeqsUpTo(GameRowSet, MaxGames)
    /\ results = None
    /\ now = 0
    /\ PipeIdle /\ ScanIdle /\ WpIdle /\ DayIdle

OddsCall ==
    /\ results = None
    /\ results' = Some(extract_odds_from_html(gameRows))
    /\ UNCHANGED <<gameRows, now, pipeVars, scanVars, wpVars, dayVars>>

OddsNext == OddsCall

OddsSpec == OddsInit /\ [][OddsNext]_vars

\* the odds views of game i that are not null and name the bookmaker bet365
Bet365Views(i) ==
    {k \in 1..Len(gameRows[i].oddsViews) :
        /\ gameRows[i].oddsViews[k] # None
        /\ Val(gameRows[i].oddsViews[k]).sportsbook = Some("bet365")}

\* the code of a display name in the lookup table, the name itself otherwise
Coded(name, team) ==
    /\ \A p \in TEAM_CODE_MAP : p[1] = name => team = p[2]
    /\ (\A p \in TEAM_CODE_MAP : p[1] # name) => team = name

Returned == ~IsNone(results) /\ Val(results).kind = "return"

\* C11: a call that returns yields exactly one row per game row, in input
\* order; the row's away_odds / home_odds are the current line of the first
\* non-null odds view naming bet365 when there is one and "N/A" otherwise;
\* team1 / team2 are the codes of the display names in the lookup table, the
\* display names themselves when unmapped.
C11_OddsRows ==
    Returned =>
        LET rows == Val(results).rows
        IN  /\ Len(rows) = Len(gameRows)
            /\ \A i \in 1..Len(gameRows) :
                  LET g == gameRows[i]
                      B == Bet365Views(i)
                  IN  /\ Coded(g.gameView.awayTeam.displayName, rows[i].team1)
                      /\ Coded(g.gameView.homeTeam.displayName, rows[i].team2)
                      /\ rows[i].pitcher1 = Val(g.gameView.awayStarter).firstName
                             \o " " \o Val(g.gameView.awayStarter).lastName
                      /\ IF B = {}
                         THEN rows[i].away_odds = "N/A" /\ rows[i].home_odds = "N/A"
                         ELSE LET line == Val(Val(g.oddsViews[SetMin(B)]).currentLine)
                              IN  /\ rows[i].away_odds = line.awayOdds
                                  /\ rows[i].home_odds = line.homeOdds

\* a returned call on two different games: one with a null view, another
\* bookmaker and two bet365 views, one with no bet365 view and an unmapped name
C11_Witness ==
    /\ Returned
    /\ gameRows = <<GFirstOfTwo, GNoBet>>
    /\ Val(results).rows[1].away_odds = "-150"
    /\ Val(results).rows[1].team1 = "ARI"
    /\ Val(results).rows[2].home_odds = "N/A"
    /\ Val(results).rows[2].team1 = "Team Japan"
    /\ Val(results).rows[2].team2 = "LAD"

-----------------------------------------------------------------------------
(* day_sample.py: get_games_for_date, the selection of the sections whose    *)
(* heading matches target_date (lines 120-156). game_sections holds the      *)
(* 'date' of each section with games, as lines 108-118 collected them.       *)

\* a string literal as a sequence of one-character strings
Chars(s) == [i \in 1..Len(s) |-> SubSeq(s, i, i)]

UpperSeq == Chars("ABCDEFGHIJKLMNOPQRSTUVWXYZ")
LowerSeq == Chars("abcdefghijklmnopqrstuvwxyz")

\* str.lower()
LowerChar(c) ==
    IF \E i \in 1..26 : UpperSeq[i] = c
    THEN LowerSeq[CHOOSE i \in 1..26 : UpperSeq[i] = c]
    ELSE c
StrLower(s) == [i \in 1..Len(s) |-> LowerChar(s[i])]

\* index of the first whitespace character at or after i, Len + 1 if none
RECURSIVE WordEnd(_, _)
WordEnd(s, i) ==
    IF i <= Len(s) /\ s[i] \notin Whitespace THEN WordEnd(s, i + 1) ELSE i

\* str.split(): the maximal runs of non-whitespace characters
RECURSIVE SplitFrom(_, _)
SplitFrom(s, i) ==
    LET a == SkipSpace(s, i)
    IN  IF a > Len(s) THEN <<>>
        ELSE <<SubSeq(s, a, WordEnd(s, a) - 1)>> \o SplitFrom(s, WordEnd(s, a))
Split(s) == SplitFrom(s, 1)

\* line 131: .replace(',', '')
NotComma(c) == c # ","
RemoveCommas(s) == SelectSeq(s, NotComma)

\* a variant that keeps a leading zero of the day
KeepLeadingZero(target_day) == target_day

\* lines 135-136: drop one leading '0'
StripLeadingZero(target_day) ==
    IF target_day # <<>> /\ target_day[1] = "0" THEN Tail(target_day)
    ELSE target_day

\* regular-expression \w and \b (position i lies between s[i-1] and s[i])
WordChars == Digits \cup Upper \cup {LowerSeq[i] : i \in 1..26} \cup {"_"}
IsWordChar(c) == c \in WordChars
WordAt(s, i) == i >= 1 /\ i <= Len(s) /\ IsWordChar(s[i])
WordBoundary(s, i) == WordAt(s, i - 1) # WordAt(s, i)

\* \b lit \b matched at index i, for a literal without metacharacters
BoundedAt(s, lit, i) ==
    /\ WordBoundary(s, i)
    /\ MatchAt(s, lit, i)
    /\ WordBoundary(s, i + Len(lit))

\* .* between index a and index b: any characters but a newline
DotStar(s, a, b) == a <= b /\ \A k \in a..(b - 1) : s[k] # "\n"

\* line 141-142: re.search(rf'\b{month}\b.*\b{day}\b.*\b{year}\b', s), for
\* month, day and year without regular-expression metacharacters
SearchPattern(s, month, day, year) ==
    \E i1 \in 1..(Len(s) + 1) :
        /\ BoundedAt(s, month, i1)
        /\ \E i2 \in (i1 + Len(month))..(Len(s) + 1) :
              /\ DotStar(s, i1 + Len(month), i2)
              /\ BoundedAt(s, day, i2)
              /\ \E i3 \in (i2 + Len(day))..(Len(s) + 1) :
                    /\ DotStar(s, i2 + Len(day), i3)
                    /\ BoundedAt(s, year, i3)

\* lines 125-147: the loop body, TRUE when the section is appended
SectionMatches(date, target) ==
    \E target_date_lower \in {StrLower(target)}, section_date_lower \in {StrLower(date)} :
        \E target_parts \in {Split(target_date_lower)} :
            IF Len(target_parts) >= 3
            THEN \E target_day \in {StripLeadingZero(RemoveCommas(target_parts[2]))} :
                     SearchPattern(section_date_lower, target_parts[1], target_day,
                                   target_parts[3])
            ELSE Contains(section_date_lower, target_date_lower)

\* lines 122-147: matching_sections, as indexes into game_sections
RECURSIVE MatchingFrom(_, _, _)
MatchingFrom(secs, target, i) ==
    IF i > Len(secs) THEN <<>>
    ELSE (IF SectionMatches(secs[i], target) THEN <<i>> ELSE <<>>)
         \o MatchingFrom(secs, target, i + 1)
matching_sections(secs, target) == MatchingFrom(secs, target, 1)

\* lines 149-156: the selected days; none selected is the early return []
get_games_for_date(secs, target) == matching_sections(secs, target)

MaxSections == 2

SecMonAug4   == Chars("Monday, August 4, 2025")
SecThuAug14  == Chars("Thursday, August 14, 2025")
SecAug04     == Chars("August 04, 2025")
SecUnknown   == Chars("Unknown Date")
SectionDates == {SecMonAug4, SecThuAug14, SecAug04, SecUnknown}

TargetDates == {Chars("August 4, 2025"), Chars("August 04, 2025"),
                Chars("AUGUST 4"), Chars("4, 2025"), Chars("aug"),
                Chars("August  14 2025 games")}

DayInit ==
    /\ game_sections \in SeqsUpTo(SectionDates, MaxSections)
    /\ target_date \in TargetDates
    /\ selected_days = None
    /\ now = 0
    /\ PipeIdle /\ ScanIdle /\ WpIdle /\ OddsIdle

DayCall ==
    /\ selected_days = None
    /\ selected_days' = Some(get_games_for_date(game_sections, target_date))
    /\ UNCHANGED <<game_sections, target_date, now, pipeVars, scanVars, wpVars,
                   oddsVars>>

DayNext == DayCall

DaySpec == DayInit /\ [][DayNext]_vars

\* the words of the target, and the two tests of a section heading
TargetWords == Split(StrLower(target_date))
Tier1(i) ==
    \E w \in {TargetWords}, s \in {StrLower(game_sections[i])} :
        /\ Len(w) >= 3
        /\ \E day0 \in {RemoveCommas(w[2])} :
              \E day \in {IF day0 # <<>> /\ day0[1] = "0"
                           THEN SubSeq(day0, 2, Len(day0)) ELSE day0} :
                  \E i1 \in {k \in 1..(Len(s) + 1) : BoundedAt(s, w[1], k)},
                     i2 \in {k \in 1..(Len(s) + 1) : BoundedAt(s, day, k)},
                     i3 \in {k \in 1..(Len(s) + 1) : BoundedAt(s, w[3], k)} :
                      /\ i1 + Len(w[1]) <= i2 /\ i2 + Len(day) <= i3
                      /\ \A k \in i1..(i3 - 1) : s[k] # "\n"
Tier2(i) == Contains(StrLower(game_sections[i]), StrLower(target_date))

Tier1Matches == {i \in 1..Len(game_sections) : Tier1(i)}
Tier2Matches == {i \in 1..Len(game_sections) : Tier2(i)}

\* the selection of a completed call, as a set and in order
Selected == {Val(selected_days)[k] : k \in 1..Len(Val(selected_days))}
InOrder  == \A k \in 1..(Len(Val(selected_days)) - 1) :
                Val(selected_days)[k] < Val(selected_days)[k + 1]

\* C12 as stated: the selected sections are the tier-1 matches when there are
\* any, else the tier-2 matches.
C12_TwoTier ==
    ~IsNone(selected_days) =>
        Selected = IF Tier1Matches # {} THEN Tier1Matches ELSE Tier2Matches

\* C12: the tier is chosen by the shape of the target alone: with three or
\* more whitespace-separated words the selected sections are exactly the
\* tier-1 matches (none when tier 1 finds none), with fewer they are exactly
\* the tier-2 matches; the selection keeps the order of the sections.
C12_TierByTarget ==
    ~IsNone(selected_days) =>
        /\ InOrder
        /\ Selected = IF Len(TargetWords) >= 3 THEN Tier1Matches ELSE Tier2Matches

\* a three-word target with a zero-padded day against a zero-padded heading:
\* tier 1 finds nothing, the substring test would match, nothing is selected
C12_Witness ==
    /\ selected_days = Some(<<>>)
    /\ Len(TargetWords) >= 3
    /\ Tier1Matches = {}
    /\ Tier2Matches # {}

=============================================================================
